---- MODULE Spec2Model ----
(***************************************************************************)
(* A model of the job lifecycle engine of @oada/jobs: the store paths of   *)
(* one service (pending, success/failure/typed-failure day indexes, the    *)
(* job documents), the Queue that watches pending and submits Runners to   *)
(* its executor, and the Runner (run / postUpdate / finish), one model     *)
(* step per store request the code awaits.                                 *)
(***************************************************************************)
EXTENDS Integers, Sequences, FiniteSets, TLC

\* ---------------------------------------------------------------- bounds
MaxJobs == 2        \* job documents the clients post (job keys 1..MaxJobs)
MaxTime == 1        \* the clock counts calendar days, 0..MaxTime
MaxFaults == 1      \* store requests of Runners that may fail in one run
MaxStarts == 2      \* calls of Service.start in one run (Queue ids 1..MaxStarts)
Concurrency == 1    \* the Service's configured concurrency
MaxFires == 2       \* fires of a Report's cron timer in one run

Keys == 1..MaxJobs
Times == 0..MaxTime
QueueIds == 1..MaxStarts

\* ------------------------------------------------------------ JSON values
\* A JSON object is a function from field names to values; {} is <<>>.
EmptyObj == [f \in {} |-> 0]

\* The values the registered worker may return, and the errors it may throw.
Results == {[value |-> 1], [value |-> 2]}
Messages == {"nope"}
Tags == {"none", "bad-input"}

\* A JavaScript Error object: name, message and the JobError property.
MkError(n, m, t) == [isError |-> TRUE, name |-> n, message |-> m, JobError |-> t]
IsError(v) == "isError" \in DOMAIN v
TimeoutError == MkError("TimeoutError", "Job exceeded the allowed running limit", "none")
StoreError == MkError("Error", "store request failed", "none")
NoWorkerError == MkError("Error", "No worker registered", "none")

\* serializeError: the plain object {name, message, ...own properties}.
serializeError(v) ==
  IF IsError(v)
  THEN IF v.JobError = "none"
       THEN [name |-> v.name, message |-> v.message]
       ELSE [name |-> v.name, message |-> v.message, JobError |-> v.JobError]
  ELSE v

\* The store's PUT merges its body into the document: objects are merged
\* field by field, anything else is replaced.
MergeJson(old, new) ==
  [f \in (DOMAIN old) \cup (DOMAIN new) |->
     IF f \in DOMAIN new THEN new[f] ELSE old[f]]

\* moment(time).format('YYYY-MM-DD'): the clock of the model counts days, and
\* a time of an earlier day than the first is filed under the first.
DayOf(t) == IF t < 0 THEN 0 ELSE t

\* ----------------------------------------------------------------- state
VARIABLES
  docs,      \* job key -> the job document in the store
  pending,   \* keys of the entries of jobs/pending
  success,   \* <<day, key>> linked under jobs/success/day-index
  failure,   \* <<day, key>> linked under jobs/failure/day-index
  typed,     \* <<kind, day, key>> linked under jobs/typed-failure
  posted,    \* number of pending entries put so far
  now,       \* the clock
  workers,   \* Service.#workers: job type -> the registered Worker
  starts,    \* number of Service.start calls so far (0: not started)
  changes,   \* Queue id -> the changes its watch delivered, oldest first:
             \* a merge is its body (the keys it puts under pending), a
             \* delete of the entry k is <<0, k>>
  execQ,     \* closures waiting in the executor (PQueue) of each Queue
  runners,   \* every Runner created so far, in creation order
  faults,    \* failed store requests so far
  skip,      \* Service.opts.skipQueueOnStartup
  svcQueue,  \* Service.#queue: the id of the Queue it holds, 0 when undefined
  watching,  \* ids of the Queues whose watch on pending is open
  calls,     \* the calls of Service.start: call q constructs Queue q
  stopped,   \* Service.stop has returned and start was not called since
  crashed    \* the process was ended by an unhandled promise rejection

\* The Report the Service holds (Service.#reports) and what it wrote.
VARIABLES
  report,    \* the Report added with addReport: its type and sendEmpty
  mailer,    \* Report.mailer, the CronJob, is running
  repState,  \* the Report's calls: "none", "idle" (constructed), "running"
             \* (start was called), "stopped" (stop was called)
  lw,        \* ids of the pairs of ListWatches that are open
  lwCur,     \* the pair the Report holds in listWatchSuccesses/-Failures
  inbox,     \* ItemAdded events the ListWatches emitted, oldest first
  rows,      \* <<date, key>> -> the row under reports/<name>/day-index
  lastCron,  \* Report.lastCron
  fires,     \* fires of the cron timer so far
  mailing,   \* the records of the sendEmail in progress, or NoMail
  emails     \* the email jobs created: their records, linked or not

repVars == <<report, mailer, repState, lw, lwCur, inbox, rows, lastCron,
             fires, mailing, emails>>

vars == <<docs, pending, success, failure, typed, posted, now, workers,
          starts, changes, execQ, runners, faults, skip, svcQueue, watching,
          calls, stopped, crashed, repVars>>

\* The state of the Service and its Queues besides the executor.
svcVars == <<skip, svcQueue, watching, calls, stopped>>

NoDoc == [exists |-> FALSE, valid |-> FALSE, type |-> "none",
          status |-> "none", hasResult |-> FALSE, result |-> EmptyObj,
          updates |-> <<>>, born |-> 0]

\* The entries a client may put under pending: a link to a valid job of a
\* type with or without a registered worker, a link to a document that fails
\* the OADAJob assertion, and an entry that is no link (it has no _id).
DocKinds ==
  { [link |-> TRUE,  valid |-> TRUE,  type |-> "basic"],
    [link |-> TRUE,  valid |-> TRUE,  type |-> "other"],
    [link |-> TRUE,  valid |-> FALSE, type |-> "basic"],
    [link |-> TRUE,  valid |-> FALSE, type |-> "none"],
    [link |-> FALSE, valid |-> FALSE, type |-> "none"] }

\* Whether the pending entry k has a link field.
HasLink(k) == docs[k].exists

\* The Worker objects Service.on may register.
Worker1 == [work |-> "w1", timeout |-> 1]
Worker2 == [work |-> "w2", timeout |-> 2]

InitStore ==
  /\ docs = [k \in Keys |-> NoDoc]
  /\ pending = {}
  /\ success = {}
  /\ failure = {}
  /\ typed = {}
  /\ posted = 0
  /\ now = 0
  /\ faults = 0

\* A Service on which on("basic", ...) was called, not yet started.
InitService ==
  /\ workers = [t \in {"basic"} |-> Worker1]
  /\ starts = 0
  /\ changes = [q \in QueueIds |-> <<>>]
  /\ execQ = <<>>
  /\ runners = <<>>
  /\ svcQueue = 0
  /\ watching = {}
  /\ calls = <<>>
  /\ stopped = FALSE
  /\ crashed = FALSE

\* No Report: addReport was not called.
NoReport == [exists |-> FALSE, type |-> "none", sendEmpty |-> FALSE]
NoMail == [on |-> FALSE, records |-> {}, content |-> <<>>]

InitReport ==
  /\ report = NoReport
  /\ mailer = FALSE
  /\ repState = "none"
  /\ lw = {}
  /\ lwCur = 0
  /\ inbox = <<>>
  /\ rows = [p \in {} |-> EmptyObj]
  /\ lastCron = 0
  /\ fires = 0
  /\ mailing = NoMail
  /\ emails = <<>>

Init ==
  /\ InitStore
  /\ InitService
  /\ InitReport
  /\ skip = FALSE

\* ------------------------------------------------------------ the clients
\* postJob: create the job document, then link it under pending (or, for an
\* entry that is no link, a put of other data under pending/<key>); every
\* open watch on pending reports the put as a merge change.
PostJob(kind) ==
  /\ posted < MaxJobs
  /\ LET k == posted + 1 IN
       /\ docs' = IF kind.link
                  THEN [docs EXCEPT ![k] = [NoDoc EXCEPT !.exists = TRUE,
                                              !.valid = kind.valid,
                                              !.type = kind.type,
                                              !.born = now]]
                  ELSE docs
       /\ pending' = pending \cup {k}
       /\ changes' = [q \in QueueIds |->
                        IF q \in watching /\ ~crashed
                        THEN Append(changes[q], <<k>>) ELSE changes[q]]
  /\ posted' = posted + 1
  /\ UNCHANGED <<repVars, success, failure, typed, now, workers, starts, execQ,
                 runners, faults, svcVars, crashed>>

Tick ==
  /\ now < MaxTime
  /\ now' = now + 1
  /\ UNCHANGED <<repVars, docs, pending, success, failure, typed, posted, workers,
                 starts, changes, execQ, runners, faults, svcVars, crashed>>

\* ------------------------------------------------------------------ Queue
RECURSIVE SortedSeq(_)
\* Object.entries of the pending list: its keys in ascending order.
SortedSeq(S) ==
  IF S = {} THEN <<>>
  ELSE LET m == CHOOSE x \in S : \A y \in S : x <= y
       IN <<m>> \o SortedSeq(S \ {m})

\* Job.fromOada: the document as read, and whether it passes the assertion.
fromOada(k) ==
  [job |-> [type |-> docs[k].type, status |-> docs[k].status,
            updates |-> docs[k].updates],
   isJob |-> docs[k].valid]

\* ----------------------------------------------------------------- Runner
Terminal == {"success", "failure"}
Ended == {"done", "rejected"}

\* finish(status, result, time, failType) up to its first store request.
CallFinish(r, ctx, status, result, time, failType) ==
  [r EXCEPT !.pc = "F1", !.ctx = ctx,
            !.fin = [status |-> status, result |-> result, time |-> time,
                     failType |-> failType]]

\* The time of the first update whose status is the job's status, else now.
CompletionTime(job) ==
  LET hits == {i \in 1..Len(job.updates) : job.updates[i].status = job.status}
  IN IF hits = {} THEN now
     ELSE job.updates[CHOOSE i \in hits : \A j \in hits : i <= j].time

\* A run without the check for a job that is already complete.
EnterRun_NoShortCircuit(r) ==
  IF r.job.type \notin DOMAIN workers
  THEN CallFinish([r EXCEPT !.ran = TRUE], "catch", "failure", NoWorkerError,
                  now, NoWorkerError.JobError)
  ELSE [r EXCEPT !.pc = "started", !.using = workers[r.job.type],
                 !.ran = TRUE]

\* Runner.run up to its first store request: it increments the gauge of
\* running jobs (`ran`) before anything else.
EnterRun(r) ==
  IF r.job.status \in Terminal
  THEN CallFinish([r EXCEPT !.ran = TRUE], "short", r.job.status, EmptyObj,
                  CompletionTime(r.job), "none")
  ELSE IF r.job.type \notin DOMAIN workers
  THEN CallFinish([r EXCEPT !.ran = TRUE], "catch", "failure", NoWorkerError,
                  now, NoWorkerError.JobError)
  ELSE [r EXCEPT !.pc = "started", !.using = workers[r.job.type],
                 !.ran = TRUE]

NoFin == [status |-> "none", result |-> EmptyObj, time |-> 0,
          failType |-> "none"]

\* No Worker obtained from getWorker (yet).
NoWorker == [work |-> "none", timeout |-> 0]

\* The closure added by #doJobs, up to its first store request.
EnterClosure(c) ==
  LET r == [key |-> c.key, q |-> c.q, isJob |-> c.isJob, job |-> c.job,
            pc |-> "new", ctx |-> "none", fin |-> NoFin,
            worker |-> "none", wval |-> EmptyObj, late |-> FALSE,
            ri |-> 0, using |-> NoWorker,
            failedAt |-> "none", ran |-> FALSE, decs |-> 0]
  IN IF ~c.isJob
     THEN CallFinish(r, "invalid", "failure", EmptyObj, now, "none")
     ELSE EnterRun(r)

Active(q) ==
  Cardinality({i \in 1..Len(runners) :
                  runners[i].q = q /\ runners[i].pc \notin Ended})

RemoveAt(s, i) == SubSeq(s, 1, i - 1) \o SubSeq(s, i + 1, Len(s))

\* The index of the oldest closure waiting in the executor of Queue q, else 0.
OldestWaiting(q) ==
  LET mine == {j \in 1..Len(execQ) : execQ[j].q = q}
  IN IF mine = {} THEN 0 ELSE CHOOSE j \in mine : \A h \in mine : j <= h

\* An executor that starts every closure at once.
Submit_Unbounded(q, k) ==
  LET f == fromOada(k)
      c == [key |-> k, q |-> q, job |-> f.job, isJob |-> f.isJob]
  IN /\ runners' = Append(runners, EnterClosure(c))
     /\ execQ' = execQ

\* Queue.#doJobs for one entry that has a link: load the job and add the
\* closure to the executor (PQueue.add), which starts it at once when fewer
\* than `concurrency` closures of this Queue are running.
Submit(q, k) ==
  LET f == fromOada(k)
      c == [key |-> k, q |-> q, job |-> f.job, isJob |-> f.isJob]
  IN IF Active(q) < Concurrency
     THEN /\ runners' = Append(runners, EnterClosure(c))
          /\ execQ' = execQ
     ELSE /\ execQ' = Append(execQ, c)
          /\ runners' = runners

RECURSIVE SumDecs(_, _)
\* The decrements made so far by the first n Runners of jobs of a type.
SumDecs(n, type) ==
  IF n = 0 THEN 0
  ELSE SumDecs(n - 1, type)
         + (IF runners[n].job.type = type THEN runners[n].decs ELSE 0)

\* The gauge oada_jobs_total{type, state=queued}: incremented by #doJobs for
\* every job it loads, decremented by every finish that reaches its metrics.
jobsQueued(type) ==
  Cardinality({j \in 1..Len(execQ) : execQ[j].job.type = type})
    + Cardinality({i \in 1..Len(runners) :
                     runners[i].q # 0 /\ runners[i].job.type = type})
    - SumDecs(Len(runners), type)

\* The gauge oada_jobs_total{type, state=running}: incremented by run,
\* decremented by every finish that reaches its metrics.
jobsRunning(type) ==
  Cardinality({i \in 1..Len(runners) :
                 runners[i].ran /\ runners[i].job.type = type})
    - SumDecs(Len(runners), type)

\* Runner i takes a step to r. When that ends its closure, PQueue starts the
\* oldest closure waiting in the same Queue. When the closure rejects, the
\* promise PQueue.add returned (dropped with `void`) rejects unhandled: the
\* runtime ends the process unless the host handles such rejections.
SetRunner(i, r) ==
  LET n == OldestWaiting(r.q)
  IN /\ IF r.pc \in Ended /\ runners[i].pc \notin Ended /\ n # 0
        THEN /\ runners' = Append([runners EXCEPT ![i] = r],
                                  EnterClosure(execQ[n]))
             /\ execQ' = RemoveAt(execQ, n)
        ELSE /\ runners' = [runners EXCEPT ![i] = r]
             /\ execQ' = execQ
     /\ crashed' \in (IF r.pc = "rejected" /\ r.q # 0
                      THEN BOOLEAN ELSE {crashed})

\* ----------------------------------------------------------------- Report
\* reportConfig of the Report: column -> JSON pointer into the job, or the
\* word errorMappings; failure kind -> text.
JobMappings ==
  [Type |-> "/type", Message |-> "/result/message", Outcome |-> "errorMappings"]
ErrorMappings == [k \in {"bad-input"} |-> "Bad Input"]

\* The values of ReportConstructor.type ("none": not set), and the job types
\* of the model that occur as a substring of a type name.
ReportTypes == {"none", "basic", "basic-v2"}
Substrings(s) == IF s = "basic-v2" THEN {"basic-v2", "basic"} ELSE {s}

\* report.type.includes(job.type) for a report type that is a string.
Includes(s, t) == t \in Substrings(s)

\* jp.has(job, pointer) and jp.get(job, pointer) for the pointers configured.
has(job, pointer) ==
  CASE pointer = "/type" -> job.type # "none"
    [] pointer = "/result/message" ->
         job.hasResult /\ "message" \in DOMAIN job.result
    [] OTHER -> FALSE

get(job, pointer) ==
  CASE pointer = "/type" -> job.type
    [] pointer = "/result/message" -> job.result["message"]

\* The path of an item below the list a ListWatch is on: the segments before
\* the date (`pre`), the date and the job key. The items of the watches:
\* $.day-index.*.* below jobs/success, $.*.day-index.*.* below jobs/failure.
ItemPath(pre, date, key) == [pre |-> pre, date |-> date, key |-> key]
ItemsPath(list) ==
  IF list = "success" THEN <<"day-index">> ELSE <<"*", "day-index">>

Matches(pre, pattern) ==
  /\ Len(pre) = Len(pattern)
  /\ \A j \in 1..Len(pre) : pattern[j] = "*" \/ pattern[j] = pre[j]

\* The ItemAdded events for a new item of `list` ("success" or "failure"),
\* one for each open ListWatch on that list.
ItemAdded(list, pre, date, key) ==
  IF Matches(pre, ItemsPath(list))
  THEN LET ws == SortedSeq(lw)
       IN [j \in 1..Len(ws) |->
             [w |-> ws[j], list |-> list, path |-> ItemPath(pre, date, key)]]
  ELSE <<>>

\* A column that holds the word undefined when the pointer does not resolve.
ColumnValue_Undefined(job, pointer) ==
  IF has(job, pointer) THEN get(job, pointer) ELSE "undefined"

\* reportItem, a column with a JSON pointer: jp.has(...) ? jp.get(...) : ''.
ColumnValue(job, pointer) ==
  IF has(job, pointer) THEN get(job, pointer) ELSE ""

\* An errorMappings column without the fallback text for unmapped kinds.
ErrorText_NoFallback(errorType) ==
  IF errorType = "none" \/ errorType \notin DOMAIN ErrorMappings
  THEN "Success" ELSE ErrorMappings[errorType]

\* reportItem, a column whose pointer is the word errorMappings: errorType is
\* the first segment of a path of four segments ("none": there is none).
ErrorText(errorType) ==
  IF errorType = "none" THEN "Success"
  ELSE IF errorType \in DOMAIN ErrorMappings THEN ErrorMappings[errorType]
  ELSE "Other Error"

\* Report.reportItem: what it puts under reports/<name>/day-index/<date>, if
\* anything (the Report has no filter function).
reportItem(rep, job, path) ==
  LET errorType == IF Len(path.pre) = 2 THEN path.pre[1] ELSE "none"
      data == [c \in DOMAIN JobMappings |->
                 IF JobMappings[c] = "errorMappings"
                 THEN ErrorText(errorType)
                 ELSE ColumnValue(job, JobMappings[c])]
  IN IF ~job.exists THEN [write |-> FALSE]
     ELSE IF rep.type # "none" /\ job.type # "none"
             /\ ~Includes(rep.type, job.type)
     THEN [write |-> FALSE]
     ELSE [write |-> TRUE, date |-> path.date, key |-> path.key,
           data |-> data]

\* The columns of a row in the order reportItem sets them: the errorMappings
\* columns first, then the columns with a pointer.
Header == <<"Outcome", "Type", "Message">>

RECURSIVE SortedRows(_)
\* The row keys of a set in the order #gatherReportRecords reads them: day
\* after day, and within a day in the order of the job keys.
SortedRows(S) ==
  IF S = {} THEN <<>>
  ELSE LET m == CHOOSE x \in S :
                  \A y \in S : x[1] < y[1] \/ (x[1] = y[1] /\ x[2] <= y[2])
       IN <<m>> \o SortedRows(S \ {m})

\* #getAttachment: sheet_to_csv(json_to_sheet(records)) in base64: a header
\* line and one line per record; without records the empty string.
getAttachment(records) ==
  IF records = {} THEN <<>>
  ELSE <<Header>> \o [n \in 1..Cardinality(records) |->
                        [c \in 1..Len(Header) |->
                           rows[SortedRows(records)[n]][Header[c]]]]

\* The store's PUT of one row: merged into the row that is there.
PutRow(date, key, data) ==
  [p \in DOMAIN rows \cup {<<date, key>>} |->
     IF p = <<date, key>>
     THEN IF p \in DOMAIN rows THEN MergeJson(rows[p], data) ELSE data
     ELSE rows[p]]

\* Report.#gatherReportRecords: the rows of every day from the day of
\* lastCron to the day of the fire whose key (a ksuid) was made before the
\* midnight that ends the day of the fire.
gatherReportRecords(from, to) ==
  {p \in DOMAIN rows :
     /\ DayOf(from) <= p[1]
     /\ p[1] <= DayOf(to)
     /\ DayOf(docs[p[2]].born) < DayOf(to) + 1}

\* Report.start, called by Service.start for its Report once #doQueue has
\* returned: the CronJob is started and a new pair of ListWatches is opened
\* and kept; the pair kept before stays open.
StartReports(q) ==
  IF report.exists
  THEN /\ mailer' = TRUE
       /\ repState' = "running"
       /\ lw' = lw \cup {q}
       /\ lwCur' = q
       /\ UNCHANGED <<report, inbox, rows, lastCron, fires, mailing, emails>>
  ELSE UNCHANGED repVars

\* Report.stop, called by Service.stop: the CronJob and the pair of
\* ListWatches the Report holds are stopped.
StopReports ==
  IF report.exists
  THEN /\ mailer' = FALSE
       /\ repState' = "stopped"
       /\ lw' = lw \ {lwCur}
       /\ UNCHANGED <<report, lwCur, inbox, rows, lastCron, fires, mailing,
                      emails>>
  ELSE UNCHANGED repVars

\* ------------------------------------------------- Service.start and stop
\* Service.start -> #doQueue up to its first store request: the Queue the
\* Service holds, if any, is to be stopped first.
StartCall ==
  /\ ~crashed
  /\ starts' = starts + 1
  /\ calls' = Append(calls, [pc |-> IF svcQueue # 0 THEN "unwatch" ELSE "get",
                             old |-> svcQueue, body |-> <<>>,
                           why |-> "none", jobs |-> {}, reads |-> 0])
  /\ stopped' = FALSE
  /\ UNCHANGED <<repVars, docs, pending, success, failure, typed, posted, now,
                 workers, changes, execQ, runners, faults, skip, svcQueue,
                 watching, crashed>>

\* The first call of Service.start.
ServiceStart ==
  /\ starts = 0
  /\ StartCall

\* A further call of Service.start, after or during an earlier one.
ServiceRestart ==
  /\ starts > 0
  /\ starts < MaxStarts
  /\ StartCall

\* What a closed watch still hands to its consumer: the body being processed.
Unwatched(q) ==
  [changes EXCEPT ![q] = IF @ = <<>> THEN <<>> ELSE <<Head(@)>>]

\* #doQueue: Queue.stop of the Queue held: unwatch. The executor of that
\* Queue is left alone.
StartUnwatch(q) ==
  /\ ~crashed
  /\ calls[q].pc = "unwatch"
  /\ watching' = watching \ {calls[q].old}
  /\ changes' = Unwatched(calls[q].old)
  /\ calls' = [calls EXCEPT ![q].pc = "get"]
  /\ UNCHANGED <<repVars, docs, pending, success, failure, typed, posted, now,
                 workers, starts, execQ, runners, faults, skip, svcQueue,
                 stopped, crashed>>

\* Queue.start: ensure the paths, get the pending list, open the watch from
\* the revision of that list (so the list and the changes of the watch cover
\* every entry once); without skipQueueOnStartup the list is handed to
\* #doJobs. When start has returned, #doQueue keeps the Queue.
StartGet(q) ==
  /\ ~crashed
  /\ calls[q].pc = "get"
  /\ watching' = watching \cup {q}
  /\ LET body == IF skip THEN <<>> ELSE SortedSeq(pending) IN
       IF body = <<>>
       THEN /\ calls' = [calls EXCEPT ![q].pc = "done", ![q].jobs = pending]
            /\ svcQueue' = q
            /\ StartReports(q)
       ELSE /\ calls' = [calls EXCEPT ![q].pc = "initial", ![q].body = body,
                                      ![q].jobs = pending]
            /\ svcQueue' = svcQueue
            /\ UNCHANGED repVars
  /\ UNCHANGED <<docs, pending, success, failure, typed, posted, now,
                 workers, starts, changes, execQ, runners, faults, skip,
                 stopped, crashed>>

\* A start that opens its watch before it looks at the get's outcome.
StartGetFails_AfterWatch(q) ==
  /\ ~crashed
  /\ faults < MaxFaults
  /\ calls[q].pc = "get"
  /\ faults' = faults + 1
  /\ watching' = watching \cup {q}
  /\ calls' = [calls EXCEPT ![q].pc = "rejected", ![q].why = "get"]
  /\ StartReports(q)
  /\ UNCHANGED <<docs, pending, success, failure, typed, posted, now,
                 workers, starts, changes, execQ, runners, skip, svcQueue,
                 stopped, crashed>>

\* Queue.start: the get of the pending list fails (or is not a 200): start
\* throws before the watch is opened, #doQueue logs it and keeps no Queue.
StartGetFails(q) ==
  /\ ~crashed
  /\ faults < MaxFaults
  /\ calls[q].pc = "get"
  /\ faults' = faults + 1
  /\ calls' = [calls EXCEPT ![q].pc = "rejected", ![q].why = "get"]
  /\ StartReports(q)
  /\ UNCHANGED <<docs, pending, success, failure, typed, posted, now,
                 workers, starts, changes, execQ, runners, skip, svcQueue,
                 watching, stopped, crashed>>

\* The call of start after one entry of the initial list: #doJobs and start
\* have returned when `rest` is empty, #doQueue keeps the Queue and
\* Service.start starts the Report.
AfterInitial(q, rest) ==
  /\ calls' = [calls EXCEPT ![q].body = rest,
                            ![q].pc = IF rest = <<>> THEN "done" ELSE @]
  /\ svcQueue' = IF rest = <<>> THEN q ELSE svcQueue
  /\ IF rest = <<>> THEN StartReports(q) ELSE UNCHANGED repVars

\* Queue.#doJobs on the initial list, one entry: an entry without a link
\* field makes #doJobs return, which leaves the rest of the list unprocessed.
DispatchInitial(q) ==
  /\ ~crashed
  /\ calls[q].pc = "initial"
  /\ LET k == Head(calls[q].body) IN
       IF HasLink(k)
       THEN /\ Submit(q, k)
            /\ AfterInitial(q, Tail(calls[q].body))
       ELSE /\ UNCHANGED <<runners, execQ>>
            /\ AfterInitial(q, <<>>)
  /\ UNCHANGED <<docs, pending, success, failure, typed, posted, now,
                 workers, starts, changes, faults, skip, watching, stopped,
                 crashed>>

\* A #doQueue that lets the error of Queue.start leave Service.start: the
\* Report is not started.
LoadFailsInitial_Rejects(q) ==
  /\ ~crashed
  /\ faults < MaxFaults
  /\ calls[q].pc = "initial"
  /\ HasLink(Head(calls[q].body))
  /\ faults' = faults + 1
  /\ calls' = [calls EXCEPT ![q].pc = "rejected", ![q].body = <<>>,
                           ![q].why = "load"]
  /\ UNCHANGED <<repVars, docs, pending, success, failure, typed, posted, now,
                 workers, starts, changes, execQ, runners, skip, svcQueue,
                 watching, stopped, crashed>>

\* Queue.#doJobs on the initial list: the get of Job.fromOada fails: #doJobs
\* and start throw with the watch open, #doQueue logs it and keeps no Queue,
\* and Service.start goes on to start the Report.
LoadFailsInitial(q) ==
  /\ ~crashed
  /\ faults < MaxFaults
  /\ calls[q].pc = "initial"
  /\ HasLink(Head(calls[q].body))
  /\ faults' = faults + 1
  /\ calls' = [calls EXCEPT ![q].pc = "rejected", ![q].body = <<>>,
                           ![q].why = "load"]
  /\ StartReports(q)
  /\ UNCHANGED <<docs, pending, success, failure, typed, posted, now,
                 workers, starts, changes, execQ, runners, skip, svcQueue,
                 watching, stopped, crashed>>

\* The client's tree put of a job reaches the job document after the link
\* under pending was written: the document, empty until now, gets its content.
ClientWrites(k) ==
  /\ docs[k].exists /\ ~docs[k].valid /\ docs[k].type = "none"
  /\ docs[k].status = "none"
  /\ docs' = [docs EXCEPT ![k].valid = TRUE, ![k].type = "basic"]
  /\ UNCHANGED <<repVars, pending, success, failure, typed, posted, now,
                 workers, starts, changes, execQ, runners, faults, svcVars,
                 crashed>>

\* The call of start after one entry of the initial list was loaded with
\* `reads` gets of its document.
AfterLoad(q, reads) ==
  LET rest == Tail(calls[q].body)
  IN /\ calls' = [calls EXCEPT ![q].body = rest, ![q].reads = reads,
                               ![q].pc = IF rest = <<>> THEN "done"
                                         ELSE "initial"]
     /\ svcQueue' = IF rest = <<>> THEN q ELSE svcQueue
     /\ IF rest = <<>> THEN StartReports(q) ELSE UNCHANGED repVars

\* Job.fromOada, the first get of the document: when it passes the
\* assertion the job is loaded from it and the closure is added; when not,
\* the document is to be read again.
LoadFirst(q) ==
  /\ ~crashed
  /\ calls[q].pc = "initial"
  /\ HasLink(Head(calls[q].body))
  /\ IF docs[Head(calls[q].body)].valid
     THEN /\ Submit(q, Head(calls[q].body))
          /\ AfterLoad(q, 1)
     ELSE /\ calls' = [calls EXCEPT ![q].pc = "reread", ![q].reads = 1]
          /\ UNCHANGED <<repVars, runners, execQ, svcQueue>>
  /\ UNCHANGED <<docs, pending, success, failure, typed, posted, now,
                 workers, starts, changes, faults, skip, watching, stopped,
                 crashed>>

\* A second get whose document is judged by the outcome of the first.
LoadSecond_FirstVerdict(q) ==
  /\ ~crashed
  /\ calls[q].pc = "reread"
  /\ LET k == Head(calls[q].body)
         c == [key |-> k, q |-> q, job |-> fromOada(k).job, isJob |-> FALSE]
     IN /\ runners' = Append(runners, EnterClosure(c))
        /\ execQ' = execQ
  /\ AfterLoad(q, 2)
  /\ UNCHANGED <<docs, pending, success, failure, typed, posted, now,
                 workers, starts, changes, faults, skip, watching, stopped,
                 crashed>>

\* Job.fromOada, the second get: the job is loaded from the document as it
\* is now, isJob is whether that document passes, and the closure is added.
LoadSecond(q) ==
  /\ ~crashed
  /\ calls[q].pc = "reread"
  /\ Submit(q, Head(calls[q].body))
  /\ AfterLoad(q, 2)
  /\ UNCHANGED <<docs, pending, success, failure, typed, posted, now,
                 workers, starts, changes, faults, skip, watching, stopped,
                 crashed>>

\* change.type of a change of the watch on pending.
ChangeType(change) == IF Head(change) = 0 THEN "delete" ELSE "merge"

\* The change the watch reports when the pending entry k is deleted.
DeleteOf(k) == <<0, k>>

\* A client deletes the pending entry k: every open watch on pending
\* reports a delete change.
ClientDeletes(k) ==
  /\ k \in pending
  /\ pending' = pending \ {k}
  /\ changes' = [q \in QueueIds |->
                   IF q \in watching /\ ~crashed
                   THEN Append(changes[q], DeleteOf(k)) ELSE changes[q]]
  /\ UNCHANGED <<repVars, docs, success, failure, typed, posted, now,
                 workers, starts, execQ, runners, faults, svcVars, crashed>>

\* A consumer that hands the entry of a delete change to #doJobs.
SkipChange_AsMerge(q) ==
  /\ ~crashed
  /\ changes[q] # <<>>
  /\ ChangeType(Head(changes[q])) # "merge"
  /\ Submit(q, Head(changes[q])[2])
  /\ changes' = [changes EXCEPT ![q] = Tail(@)]
  /\ UNCHANGED <<repVars, docs, pending, success, failure, typed, posted, now,
                 workers, starts, faults, svcVars, crashed>>

\* The change consumer of Queue q: a change whose type is not "merge" is
\* skipped (`continue`).
SkipChange(q) ==
  /\ ~crashed
  /\ changes[q] # <<>>
  /\ ChangeType(Head(changes[q])) # "merge"
  /\ changes' = [changes EXCEPT ![q] = Tail(@)]
  /\ UNCHANGED <<repVars, docs, pending, success, failure, typed, posted, now,
                 workers, starts, execQ, runners, faults, svcVars, crashed>>

\* A consumer that awaits the closure it adds to the executor.
DispatchChange_Awaits(q) ==
  /\ ~crashed
  /\ changes[q] # <<>>
  /\ ChangeType(Head(changes[q])) = "merge"
  /\ Active(q) < Concurrency
  /\ LET body == Head(changes[q])
         k == Head(body)
     IN IF HasLink(k)
        THEN /\ Submit(q, k)
             /\ changes' = [changes EXCEPT ![q] =
                              IF Len(body) = 1 THEN Tail(@)
                              ELSE <<Tail(body)>> \o Tail(@)]
        ELSE /\ UNCHANGED <<runners, execQ>>
             /\ changes' = [changes EXCEPT ![q] = Tail(@)]
  /\ UNCHANGED <<repVars, docs, pending, success, failure, typed, posted, now,
                 workers, starts, faults, svcVars, crashed>>

\* The change consumer of Queue q: #doJobs on the oldest merge body, one
\* entry: an entry without a link field makes #doJobs return, which leaves
\* the rest of the body unprocessed.
DispatchChange(q) ==
  /\ ~crashed
  /\ changes[q] # <<>>
  /\ ChangeType(Head(changes[q])) = "merge"
  /\ LET body == Head(changes[q])
         k == Head(body)
     IN IF HasLink(k)
        THEN /\ Submit(q, k)
             /\ changes' = [changes EXCEPT ![q] =
                              IF Len(body) = 1 THEN Tail(@)
                              ELSE <<Tail(body)>> \o Tail(@)]
        ELSE /\ UNCHANGED <<runners, execQ>>
             /\ changes' = [changes EXCEPT ![q] = Tail(@)]
  /\ UNCHANGED <<repVars, docs, pending, success, failure, typed, posted, now,
                 workers, starts, faults, svcVars, crashed>>

Dispatch == \E q \in QueueIds : DispatchChange(q)

\* The change consumer: the get of Job.fromOada fails: the consumer catches
\* the error, which leaves the rest of the body unprocessed, and goes on.
LoadFails(q) ==
  /\ ~crashed
  /\ faults < MaxFaults
  /\ changes[q] # <<>>
  /\ ChangeType(Head(changes[q])) = "merge"
  /\ HasLink(Head(Head(changes[q])))
  /\ faults' = faults + 1
  /\ changes' = [changes EXCEPT ![q] = Tail(@)]
  /\ UNCHANGED <<repVars, docs, pending, success, failure, typed, posted, now,
                 workers, starts, execQ, runners, svcVars, crashed>>

\* Service.stop: unwatch of the Service's own (empty) request id, then
\* Queue.stop of the Queue held: unwatch, then Report.stop. The executor is
\* left alone.
ServiceStop ==
  /\ ~crashed
  /\ starts > 0
  /\ ~stopped
  /\ watching' = watching \ {svcQueue}
  /\ changes' = IF svcQueue = 0 THEN changes ELSE Unwatched(svcQueue)
  /\ stopped' = TRUE
  /\ StopReports
  /\ UNCHANGED <<docs, pending, success, failure, typed, posted, now,
                 workers, starts, execQ, runners, faults, skip, svcQueue,
                 calls, crashed>>

\* Service.stop: the unwatch of Queue.stop fails: #stopQueue logs it and stop
\* returns with the watch open.
ServiceStopFails ==
  /\ ~crashed
  /\ starts > 0
  /\ ~stopped
  /\ svcQueue # 0
  /\ faults < MaxFaults
  /\ faults' = faults + 1
  /\ stopped' = TRUE
  /\ StopReports
  /\ UNCHANGED <<docs, pending, success, failure, typed, posted, now,
                 workers, starts, changes, execQ, runners, skip, svcQueue,
                 watching, calls, crashed>>

\* ----------------------------------------------------------- Report steps
\* Service.addReport -> new Report: the CronJob is constructed with its
\* start argument true, so the timer runs from here on; lastCron is one
\* period before the next fire, which is the day before or the same day.
AddReport(type, sendEmpty) ==
  /\ ~crashed
  /\ ~report.exists
  /\ report' = [exists |-> TRUE, type |-> type, sendEmpty |-> sendEmpty]
  /\ mailer' = TRUE
  /\ repState' = "idle"
  /\ lastCron' \in {now - 1, now}
  /\ UNCHANGED <<lw, lwCur, inbox, rows, fires, mailing, emails>>
  /\ UNCHANGED <<docs, pending, success, failure, typed, posted, now,
                 workers, starts, changes, execQ, runners, faults, svcVars,
                 crashed>>

\* The ItemAdded callback of a ListWatch: load the item (the job document)
\* and call reportItem, which puts the row.
ReportItem ==
  /\ ~crashed
  /\ inbox # <<>>
  /\ LET e == Head(inbox)
         out == reportItem(report, docs[e.path.key], e.path)
     IN rows' = IF out.write THEN PutRow(out.date, out.key, out.data)
                ELSE rows
  /\ inbox' = Tail(inbox)
  /\ UNCHANGED <<report, mailer, repState, lw, lwCur, lastCron, fires,
                 mailing, emails>>
  /\ UNCHANGED <<docs, pending, success, failure, typed, posted, now,
                 workers, starts, changes, execQ, runners, faults, svcVars,
                 crashed>>

\* A cron fire that leaves lastCron where it was when it sends nothing.
CronFire_KeepsWatermark ==
  /\ ~crashed
  /\ mailer
  /\ fires < MaxFires
  /\ ~mailing.on
  /\ fires' = fires + 1
  /\ LET records == gatherReportRecords(lastCron, now) IN
       /\ mailing' = IF records = {} /\ ~report.sendEmpty THEN NoMail
                     ELSE [on |-> TRUE, records |-> records,
                           content |-> getAttachment(records)]
       /\ lastCron' = IF records = {} /\ ~report.sendEmpty THEN lastCron
                      ELSE now
  /\ UNCHANGED <<report, mailer, repState, lw, lwCur, inbox, rows, emails>>
  /\ UNCHANGED <<docs, pending, success, failure, typed, posted, now,
                 workers, starts, changes, execQ, runners, faults, svcVars,
                 crashed>>

\* The cron timer fires: sendEmail up to its first write. It gathers the
\* records, which moves lastCron to the time of this fire, and returns when
\* there is nothing to attach and sendEmpty is not set.
CronFire ==
  /\ ~crashed
  /\ mailer
  /\ fires < MaxFires
  /\ ~mailing.on
  /\ fires' = fires + 1
  /\ LET records == gatherReportRecords(lastCron, now) IN
       mailing' = IF records = {} /\ ~report.sendEmpty THEN NoMail
                  ELSE [on |-> TRUE, records |-> records,
                        content |-> getAttachment(records)]
  /\ lastCron' = now
  /\ UNCHANGED <<report, mailer, repState, lw, lwCur, inbox, rows, emails>>
  /\ UNCHANGED <<docs, pending, success, failure, typed, posted, now,
                 workers, starts, changes, execQ, runners, faults, svcVars,
                 crashed>>

\* sendEmail: post the email job document to /resources; `location` tells
\* whether the response carries a content-location header.
EmailPost(location) ==
  /\ ~crashed
  /\ mailing.on
  /\ emails' = Append(emails, [service |-> "abalonemail", type |-> "email",
                               records |-> mailing.records,
                               content |-> mailing.content,
                               located |-> location, linked |-> FALSE])
  /\ mailing' = NoMail
  /\ UNCHANGED <<report, mailer, repState, lw, lwCur, inbox, rows, lastCron,
                 fires>>
  /\ UNCHANGED <<docs, pending, success, failure, typed, posted, now,
                 workers, starts, changes, execQ, runners, faults, svcVars,
                 crashed>>

\* A sendEmail that links the email job whether or not it has a location.
EmailLink_Unlocated(n) ==
  /\ ~crashed
  /\ n \in 1..Len(emails)
  /\ ~emails[n].linked
  /\ emails' = [emails EXCEPT ![n].linked = TRUE]
  /\ UNCHANGED <<report, mailer, repState, lw, lwCur, inbox, rows, lastCron,
                 fires, mailing>>
  /\ UNCHANGED <<docs, pending, success, failure, typed, posted, now,
                 workers, starts, changes, execQ, runners, faults, svcVars,
                 crashed>>

\* sendEmail of email job n: `if (!location) return;`, then link the email
\* job under the email service's pending list, under the id of the document.
EmailLink(n) ==
  /\ ~crashed
  /\ n \in 1..Len(emails)
  /\ emails[n].located
  /\ ~emails[n].linked
  /\ emails' = [emails EXCEPT ![n].linked = TRUE]
  /\ UNCHANGED <<report, mailer, repState, lw, lwCur, inbox, rows, lastCron,
                 fires, mailing>>
  /\ UNCHANGED <<docs, pending, success, failure, typed, posted, now,
                 workers, starts, changes, execQ, runners, faults, svcVars,
                 crashed>>

\* --------------------------------------------------------- Worker registry

\* The job types and Worker objects Service.on is called with.
WorkerTypes == {"basic", "other"}
WorkerObjs == {Worker1, Worker2}

\* Service.getWorker: the registered Worker; NoWorker stands for its throw.
getWorker(type) ==
  IF type \in DOMAIN workers THEN workers[type] ELSE NoWorker

\* Service.on: #workers.set(type, {work, timeout}).
On(type, w) ==
  /\ workers' = [t \in DOMAIN workers \cup {type} |->
                   IF t = type THEN w ELSE workers[t]]
  /\ UNCHANGED <<repVars, docs, pending, success, failure, typed, posted, now,
                 starts, changes, execQ, runners, faults, svcVars, crashed>>

\* A registry whose off forgets every type.
Off_All(type) ==
  /\ workers' = [t \in {} |-> NoWorker]
  /\ UNCHANGED <<repVars, docs, pending, success, failure, typed, posted, now,
                 starts, changes, execQ, runners, faults, svcVars, crashed>>

\* Service.off: #workers.delete(type).
Off(type) ==
  /\ workers' = [t \in DOMAIN workers \ {type} |-> workers[t]]
  /\ UNCHANGED <<repVars, docs, pending, success, failure, typed, posted, now,
                 starts, changes, execQ, runners, faults, svcVars, crashed>>

\* ----------------------------------------------------------- Runner steps
\* A finish that puts the status without the result.
FinishData_StatusOnly(fin) == [status |-> fin.status, result |-> EmptyObj]

\* The body finish puts to the job document.
FinishData(fin) ==
  IF fin.failType # "none" \/ IsError(fin.result)
  THEN [status |-> fin.status, result |-> serializeError(fin.result)]
  ELSE [status |-> fin.status, result |-> fin.result]

\* finishReporters as configured on the Service, in list order: two slack
\* reporters for success, one for failure, and one of a type finish does not
\* support (it is skipped with an error log).
FinishReporters ==
  << [type |-> "slack", status |-> "failure"],
     [type |-> "slack", status |-> "success"],
     [type |-> "email", status |-> "success"],
     [type |-> "slack", status |-> "success"] >>

\* A reporter loop that takes every slack reporter, whatever its status.
NextReporter_AnyStatus(from, status) ==
  LET hits == {j \in (from + 1)..Len(FinishReporters) :
                  FinishReporters[j].type = "slack"}
  IN IF hits = {} THEN 0 ELSE CHOOSE j \in hits : \A h \in hits : j <= h

\* The index of the first reporter after `from` that finish invokes (its
\* status matches and its type is slack), else 0.
NextReporter(from, status) ==
  LET hits == {j \in (from + 1)..Len(FinishReporters) :
                  /\ FinishReporters[j].status = status
                  /\ FinishReporters[j].type = "slack"}
  IN IF hits = {} THEN 0 ELSE CHOOSE j \in hits : \A h \in hits : j <= h

\* What the caller of finish does once finish has returned.
AfterFinish(r) ==
  IF r.ctx = "invalid" THEN EnterRun(r)
  ELSE IF r.ctx = "direct1"
  THEN CallFinish(r, "direct2", r.fin.status, r.fin.result, r.fin.time,
                  r.fin.failType)
  ELSE [r EXCEPT !.pc = "done"]

\* postUpdate('started', 'Runner started'), then the worker is invoked.
PostStarted(i) ==
  /\ runners[i].pc = "started"
  /\ docs' = [docs EXCEPT ![runners[i].key].updates =
                 Append(@, [status |-> "started", time |-> now])]
  /\ SetRunner(i, [runners[i] EXCEPT !.pc = "work"])
  /\ UNCHANGED <<repVars, pending, success, failure, typed, posted, now, workers,
                 starts, changes, faults, svcVars>>

\* The worker's promise resolves with r before the timeout.
WorkerReturns(i, res) ==
  /\ runners[i].pc = "work"
  /\ SetRunner(i, CallFinish([runners[i] EXCEPT !.worker = "returned",
                                                !.wval = res],
                             "try", "success", res, now, "none"))
  /\ UNCHANGED <<repVars, docs, pending, success, failure, typed, posted, now,
                 workers, starts, changes, faults, svcVars>>

\* The worker's promise rejects with an Error (a JobError when tagged).
WorkerThrows(i, m, t) ==
  /\ runners[i].pc = "work"
  /\ LET e == MkError("Error", m, t) IN
       SetRunner(i, CallFinish([runners[i] EXCEPT !.worker = "threw",
                                                  !.wval = e],
                               "catch", "failure", e, now, e.JobError))
  /\ UNCHANGED <<repVars, docs, pending, success, failure, typed, posted, now,
                 workers, starts, changes, faults, svcVars>>

\* A timeout that is finished without its failure kind.
WorkerTimeout_Untyped(i) ==
  /\ runners[i].pc = "work"
  /\ SetRunner(i, CallFinish([runners[i] EXCEPT !.worker = "timeout",
                                                !.wval = TimeoutError,
                                                !.late = TRUE],
                             "catch", "failure", TimeoutError, now, "none"))
  /\ UNCHANGED <<repVars, docs, pending, success, failure, typed, posted, now,
                 workers, starts, changes, faults, svcVars>>

\* pTimeout rejects with a TimeoutError; the worker itself may go on.
WorkerTimeout(i) ==
  /\ runners[i].pc = "work"
  /\ SetRunner(i, CallFinish([runners[i] EXCEPT !.worker = "timeout",
                                                !.wval = TimeoutError,
                                                !.late = TRUE],
                             "catch", "failure", TimeoutError, now,
                             "timeout"))
  /\ UNCHANGED <<repVars, docs, pending, success, failure, typed, posted, now,
                 workers, starts, changes, faults, svcVars>>

\* A worker that was timed out goes on, posts an update of its own through
\* its context and then settles.
WorkerLogsLate(i) ==
  /\ runners[i].late
  /\ docs' = [docs EXCEPT ![runners[i].key].updates =
                 Append(@, [status |-> "working", time |-> now])]
  /\ SetRunner(i, [runners[i] EXCEPT !.late = FALSE])
  /\ UNCHANGED <<repVars, pending, success, failure, typed, posted, now, workers,
                 starts, changes, faults, svcVars>>

\* A late completion whose value is still written to the job document.
WorkerSettlesLate_Stored(i) ==
  /\ runners[i].late
  /\ docs' = [docs EXCEPT ![runners[i].key].status = "success",
                          ![runners[i].key].hasResult = TRUE,
                          ![runners[i].key].result = [value |-> 1]]
  /\ SetRunner(i, [runners[i] EXCEPT !.late = FALSE])
  /\ UNCHANGED <<repVars, pending, success, failure, typed, posted, now, workers,
                 starts, changes, faults, svcVars>>

\* A worker that was timed out settles (returns or throws): pTimeout has
\* already rejected, so the value or error is dropped.
WorkerSettlesLate(i) ==
  /\ runners[i].late
  /\ SetRunner(i, [runners[i] EXCEPT !.late = FALSE])
  /\ UNCHANGED <<repVars, docs, pending, success, failure, typed, posted, now,
                 workers, starts, changes, faults, svcVars>>

\* finish: put {status, result} to the job document.
FinishPutDoc(i) ==
  /\ runners[i].pc = "F1"
  /\ LET r == runners[i]
         data == FinishData(r.fin)
     IN /\ docs' = [docs EXCEPT ![r.key].status = data.status,
                                ![r.key].hasResult = TRUE,
                                ![r.key].result = MergeJson(@, data.result)]
        /\ SetRunner(i, [r EXCEPT !.pc = "F2"])
  /\ UNCHANGED <<repVars, pending, success, failure, typed, posted, now, workers,
                 starts, changes, faults, svcVars>>

\* A finish that deletes the pending entry when it posts the final update.
FinishPostUpdate_DeletesPending(i) ==
  /\ runners[i].pc = "F2"
  /\ LET r == runners[i] IN
       /\ docs' = [docs EXCEPT ![r.key].updates =
                      Append(@, [status |-> r.fin.status, time |-> now])]
       /\ pending' = pending \ {r.key}
       /\ SetRunner(i, [r EXCEPT !.pc = "F3"])
  /\ UNCHANGED <<repVars, success, failure, typed, posted, now, workers,
                 starts, changes, faults, svcVars>>

\* finish: postUpdate(status, 'Runner finshed').
FinishPostUpdate(i) ==
  /\ runners[i].pc = "F2"
  /\ LET r == runners[i] IN
       /\ docs' = [docs EXCEPT ![r.key].updates =
                      Append(@, [status |-> r.fin.status, time |-> now])]
       /\ SetRunner(i, [r EXCEPT !.pc = "F3"])
  /\ UNCHANGED <<repVars, pending, success, failure, typed, posted, now, workers,
                 starts, changes, faults, svcVars>>

\* A finish that files under the day of the call instead of the day of `time`.
FinishLink_Today(i) ==
  /\ runners[i].pc = "F3"
  /\ LET r == runners[i]
         slot == <<DayOf(now), r.key>>
     IN /\ success' = IF r.fin.status = "success"
                      THEN success \cup {slot} ELSE success
        /\ failure' = IF r.fin.status = "failure"
                      THEN failure \cup {slot} ELSE failure
        /\ inbox' = IF slot \in (IF r.fin.status = "success" THEN success
                                 ELSE failure) THEN inbox
                    ELSE inbox \o ItemAdded(r.fin.status, <<"day-index">>,
                                            slot[1], slot[2])
        /\ SetRunner(i, [r EXCEPT !.pc =
               IF r.fin.status = "failure" /\ r.fin.failType # "none"
               THEN "F4" ELSE "F5"])
  /\ UNCHANGED <<report, mailer, repState, lw, lwCur, rows, lastCron, fires,
                 mailing, emails>>
  /\ UNCHANGED <<docs, pending, typed, posted, now, workers, starts,
                 changes, faults, svcVars>>

\* finish: link the job under <status>/day-index/<date>; the open
\* ListWatches whose items it matches emit ItemAdded for a new link.
FinishLink(i) ==
  /\ runners[i].pc = "F3"
  /\ LET r == runners[i]
         slot == <<DayOf(r.fin.time), r.key>>
     IN /\ success' = IF r.fin.status = "success"
                      THEN success \cup {slot} ELSE success
        /\ failure' = IF r.fin.status = "failure"
                      THEN failure \cup {slot} ELSE failure
        /\ inbox' = IF slot \in (IF r.fin.status = "success" THEN success
                                 ELSE failure) THEN inbox
                    ELSE inbox \o ItemAdded(r.fin.status, <<"day-index">>,
                                            slot[1], slot[2])
        /\ SetRunner(i, [r EXCEPT !.pc =
               IF r.fin.status = "failure" /\ r.fin.failType # "none"
               THEN "F4" ELSE "F5"])
  /\ UNCHANGED <<report, mailer, repState, lw, lwCur, rows, lastCron, fires,
                 mailing, emails>>
  /\ UNCHANGED <<docs, pending, typed, posted, now, workers, starts,
                 changes, faults, svcVars>>

\* A finish that leaves out the link under typed-failure.
FinishLinkTyped_Skips(i) ==
  /\ runners[i].pc = "F4"
  /\ typed' = typed
  /\ SetRunner(i, [runners[i] EXCEPT !.pc = "F5"])
  /\ UNCHANGED <<repVars, docs, pending, success, failure, posted, now, workers,
                 starts, changes, faults, svcVars>>

\* finish: link the job under typed-failure/<failType>/day-index/<date>.
FinishLinkTyped(i) ==
  /\ runners[i].pc = "F4"
  /\ LET r == runners[i] IN
       /\ typed' = typed \cup {<<r.fin.failType, DayOf(r.fin.time), r.key>>}
       /\ SetRunner(i, [r EXCEPT !.pc = "F5"])
  /\ UNCHANGED <<repVars, docs, pending, success, failure, posted, now, workers,
                 starts, changes, faults, svcVars>>

\* After the last store request of finish: the next matching reporter, or
\* the return to the caller.
ToReporters(r, from) ==
  LET n == NextReporter(from, r.fin.status)
  IN IF n = 0 THEN AfterFinish([r EXCEPT !.ri = 0])
     ELSE [r EXCEPT !.pc = "F6", !.ri = n]

\* finish: delete the pending entry, then the metrics (the gauges of queued
\* and of running jobs are decremented and the counter of the status is
\* incremented: `decs` counts how often), then the reporters.
FinishDeletePending(i) ==
  /\ runners[i].pc = "F5"
  /\ LET r == runners[i] IN
       /\ pending' = pending \ {r.key}
       /\ SetRunner(i, ToReporters([r EXCEPT !.decs = @ + 1], 0))
  /\ UNCHANGED <<repVars, docs, success, failure, typed, posted, now, workers,
                 starts, changes, faults, svcVars>>

\* finish: one matching reporter: read the final job, post it to slack.
FinishReport(i) ==
  /\ runners[i].pc = "F6"
  /\ SetRunner(i, ToReporters(runners[i], runners[i].ri))
  /\ UNCHANGED <<repVars, docs, pending, success, failure, typed, posted, now,
                 workers, starts, changes, faults, svcVars>>

StoreRequestPcs == {"started", "F1", "F2", "F3", "F4", "F5", "F6"}

\* What a rejected store request does to the Runner: inside the try block of
\* run the catch block finishes the job as a failure; anywhere else the
\* error leaves run (and the closure).
\* failedAt keeps the request that failed.
Rejected(r) ==
  IF r.pc = "started" \/ r.ctx = "try"
  THEN CallFinish([r EXCEPT !.failedAt = r.pc], "catch", "failure",
                  StoreError, now, StoreError.JobError)
  ELSE [r EXCEPT !.pc = "rejected", !.failedAt = r.pc]

\* The store request a Runner is waiting for fails.
StoreFails(i) ==
  /\ ~crashed
  /\ faults < MaxFaults
  /\ runners[i].pc \in StoreRequestPcs
  /\ faults' = faults + 1
  /\ SetRunner(i, Rejected(runners[i]))
  /\ UNCHANGED <<repVars, docs, pending, success, failure, typed, posted, now,
                 workers, starts, changes, svcVars>>

FinishStep(i) ==
  \/ FinishPutDoc(i)
  \/ FinishPostUpdate(i)
  \/ FinishLink(i)
  \/ FinishLinkTyped(i)
  \/ FinishDeletePending(i)
  \/ FinishReport(i)

RunnerStep(i) ==
  /\ ~crashed
  /\ \/ PostStarted(i)
     \/ \E res \in Results : WorkerReturns(i, res)
     \/ \E m \in Messages, t \in Tags : WorkerThrows(i, m, t)
     \/ WorkerTimeout(i)
     \/ WorkerLogsLate(i)
     \/ WorkerSettlesLate(i)
     \/ FinishStep(i)

\* The steps of one started Service whose store requests succeed.
NextOK ==
  \/ \E kind \in DocKinds : PostJob(kind)
  \/ Tick
  \/ ServiceStart
  \/ \E q \in 1..Len(calls) : StartGet(q)
  \/ \E q \in 1..Len(calls) : DispatchInitial(q)
  \/ Dispatch
  \/ \E i \in 1..Len(runners) : RunnerStep(i)

\* ... and whose store requests may fail.
Next ==
  \/ NextOK
  \/ \E i \in 1..Len(runners) : StoreFails(i)
  \/ \E q \in 1..Len(calls) : StartGetFails(q)
  \/ \E q \in 1..Len(calls) : LoadFailsInitial(q)
  \/ \E q \in QueueIds : LoadFails(q)

\* The steps of a Service with one pending entry whose start method may be
\* called again, after or during an earlier call, with store requests that
\* succeed, all within one calendar day.
NextRestart ==
  \/ \E kind \in DocKinds : posted = 0 /\ PostJob(kind)
  \/ ServiceStart
  \/ ServiceRestart
  \/ \E q \in 1..Len(calls) : StartUnwatch(q)
  \/ \E q \in 1..Len(calls) : StartGet(q)
  \/ \E q \in 1..Len(calls) : DispatchInitial(q)
  \/ Dispatch
  \/ \E i \in 1..Len(runners) : RunnerStep(i)

\* The steps of one started Service that may be stopped.
NextStop ==
  \/ NextOK
  \/ ServiceStop
  \/ ServiceStopFails

\* The steps of a started Service with one pending entry on which on and off
\* are called at any time, with store requests that succeed.
NextRegistry ==
  \/ \E kind \in DocKinds : posted = 0 /\ PostJob(kind)
  \/ Tick
  \/ ServiceStart
  \/ \E q \in 1..Len(calls) : StartGet(q)
  \/ \E q \in 1..Len(calls) : DispatchInitial(q)
  \/ Dispatch
  \/ \E i \in 1..Len(runners) : RunnerStep(i)
  \/ \E type \in WorkerTypes, w \in WorkerObjs : On(type, w)
  \/ \E type \in WorkerTypes : Off(type)

\* The steps of a Service with one Report and one pending entry, which may
\* be stopped, with store requests that succeed.
NextReport ==
  \/ \E kind \in DocKinds : posted = 0 /\ PostJob(kind)
  \/ Tick
  \/ \E type \in ReportTypes, sendEmpty \in BOOLEAN : AddReport(type, sendEmpty)
  \/ ServiceStart
  \/ \E q \in 1..Len(calls) : StartGet(q)
  \/ \E q \in 1..Len(calls) : DispatchInitial(q)
  \/ Dispatch
  \/ \E i \in 1..Len(runners) : RunnerStep(i)
  \/ ReportItem
  \/ CronFire
  \/ \E location \in BOOLEAN : EmailPost(location)
  \/ \E n \in 1..MaxFires : EmailLink(n)
  \/ ServiceStop

\* The steps of a Service to which a Report of every job type was added
\* before it is started and before one valid job is posted, whose worker
\* returns a result and whose start method may be called again, over more
\* than one calendar day.
NextReportRestart ==
  \/ posted = 0 /\ AddReport("none", FALSE)
  \/ (report.exists /\ posted = 0)
       /\ PostJob([link |-> TRUE, valid |-> TRUE, type |-> "basic"])
  \/ report.exists /\ ServiceStart
  \/ ServiceRestart
  \/ \E q \in 1..Len(calls) : StartUnwatch(q)
  \/ \E q \in 1..Len(calls) : StartGet(q)
  \/ \E q \in 1..Len(calls) : DispatchInitial(q)
  \/ Dispatch
  \/ \E i \in 1..Len(runners) :
       ~crashed /\ (\/ PostStarted(i)
                    \/ WorkerReturns(i, [value |-> 1])
                    \/ FinishStep(i))
  \/ Tick
  \/ ReportItem

\* The steps of one Service, started once, whose clients put and delete
\* pending entries, with store requests that succeed and a worker that
\* returns a result, all within one calendar day.
NextChanges ==
  \/ \E kind \in DocKinds : PostJob(kind)
  \/ \E k \in Keys : ClientDeletes(k)
  \/ starts = 0 /\ ServiceStart
  \/ \E q \in 1..Len(calls) : StartGet(q)
  \/ \E q \in 1..Len(calls) : DispatchInitial(q)
  \/ Dispatch
  \/ \E q \in QueueIds : SkipChange(q)
  \/ \E i \in 1..Len(runners) :
       ~crashed /\ (\/ PostStarted(i)
                    \/ WorkerReturns(i, [value |-> 1])
                    \/ FinishStep(i))

\* The steps of a Service with one Report and one pending entry whose start
\* method may be called again and whose Queue may fail to start: the get of
\* the pending list or the load of a listed job fails. The worker returns a
\* result, all within one calendar day.
NextStartFails ==
  \/ \E type \in ReportTypes : starts = 0 /\ AddReport(type, FALSE)
  \/ \E kind \in DocKinds : posted = 0 /\ PostJob(kind)
  \/ ServiceStart
  \/ ServiceRestart
  \/ \E q \in 1..Len(calls) : StartUnwatch(q)
  \/ \E q \in 1..Len(calls) : StartGet(q)
  \/ \E q \in 1..Len(calls) : StartGetFails(q)
  \/ \E q \in 1..Len(calls) : DispatchInitial(q)
  \/ \E q \in 1..Len(calls) : LoadFailsInitial(q)
  \/ Dispatch
  \/ \E i \in 1..Len(runners) :
       ~crashed /\ (\/ PostStarted(i)
                    \/ WorkerReturns(i, [value |-> 1])
                    \/ FinishStep(i))

Spec == Init /\ [][Next]_vars
SpecStartFails == Init /\ [][NextStartFails]_vars
SpecChanges == Init /\ [][NextChanges]_vars

\* The same steps, where a change consumer that can take a step takes one:
\* its loop is resumed by the event loop whenever its watch holds a change.
\* Nothing is assumed of the Runners: a worker may never return.
FairChanges ==
  /\ SpecChanges
  /\ WF_vars(Dispatch)
  /\ \A q \in QueueIds : WF_vars(SkipChange(q))
SpecReportRestart == Init /\ [][NextReportRestart]_vars

\* Report.reportItem on its own: a started Report of any type, a job
\* document of any content, and one ItemAdded event of one of its two
\* ListWatches for it.
FiledJobs ==
  [exists : {TRUE}, valid : BOOLEAN, type : {"basic", "other", "none"},
   status : {"success", "failure"}, hasResult : {TRUE},
   result : Results \cup {serializeError(MkError("Error", m, t)) :
                             m \in Messages, t \in Tags},
   updates : {<<>>}, born : {0}]

ItemEvents ==
  {[w |-> 1, list |-> "success", path |-> ItemPath(<<"day-index">>, d, 1)] :
     d \in Times}
  \cup {[w |-> 1, list |-> "failure",
         path |-> ItemPath(<<kind, "day-index">>, d, 1)] :
          kind \in {"bad-input", "timeout", "unknown"}, d \in Times}

InitReportItem ==
  /\ InitStore!2 /\ InitStore!3 /\ InitStore!4 /\ InitStore!5 /\ InitStore!6
  /\ InitStore!7 /\ InitStore!8
  /\ \E job \in FiledJobs : docs = [k \in Keys |-> IF k = 1 THEN job ELSE NoDoc]
  /\ InitService
  /\ skip = FALSE
  /\ \E type \in ReportTypes :
       report = [exists |-> TRUE, type |-> type, sendEmpty |-> FALSE]
  /\ mailer = TRUE
  /\ repState = "running"
  /\ lw = {1}
  /\ lwCur = 1
  /\ \E e \in ItemEvents : inbox = <<e>>
  /\ rows = [p \in {} |-> EmptyObj]
  /\ lastCron = 0
  /\ fires = 0
  /\ mailing = NoMail
  /\ emails = <<>>

SpecReportItem == InitReportItem /\ [][ReportItem]_vars

SpecReport == Init /\ [][NextReport]_vars

\* The steps of a Service started over a pending list whose documents may
\* still be empty and get their content at any time, with the two gets of
\* Job.fromOada as separate steps.
NextLoad ==
  \/ \E kind \in DocKinds : (starts = 0 /\ kind.link) /\ PostJob(kind)
  \/ \E k \in Keys : ClientWrites(k)
  \/ posted > 0 /\ ServiceStart
  \/ \E q \in 1..Len(calls) : StartGet(q)
  \/ \E q \in 1..Len(calls) : LoadFirst(q)
  \/ \E q \in 1..Len(calls) : LoadSecond(q)
  \/ \E i \in 1..Len(runners) : RunnerStep(i)

SpecLoad == Init /\ [][NextLoad]_vars

SpecRegistry == Init /\ [][NextRegistry]_vars

\* The updates logs a job document may hold when its pending entry is
\* observed: up to three updates, each posted at the time of the clock, so
\* their times do not decrease.
UpdateLogs ==
  {u \in UNION {[1..n -> [status : {"started", "success", "failure"},
                          time : Times]] : n \in 0..3} :
     \A a, b \in DOMAIN u : a <= b => u[a].time <= u[b].time}

\* The job documents a run may find under pending: a new job, or a job that
\* an earlier Runner gave a terminal status without deleting its entry.
ObservedJobs ==
  {[NoDoc EXCEPT !.exists = TRUE, !.valid = TRUE, !.type = "basic"]}
  \cup {[NoDoc EXCEPT !.exists = TRUE, !.valid = TRUE, !.type = "basic",
                      !.status = st, !.hasResult = TRUE, !.updates = u] :
          st \in Terminal, u \in UpdateLogs}

\* Runner.run on its own: a Service is started over a pending list with one
\* entry, whose job document is any of ObservedJobs, at the time of its last
\* update or later.
InitRun ==
  /\ \E job \in ObservedJobs :
       /\ docs = [k \in Keys |-> IF k = 1 THEN job ELSE NoDoc]
       /\ now \in {t \in Times : \A n \in DOMAIN job.updates :
                                   job.updates[n].time <= t}
  /\ pending = {1}
  /\ posted = 1
  /\ InitStore!3 /\ InitStore!4 /\ InitStore!5 /\ InitStore!8
  /\ InitService
  /\ InitReport
  /\ skip = FALSE

NextRun ==
  \/ Tick
  \/ ServiceStart
  \/ \E q \in 1..Len(calls) : StartGet(q)
  \/ \E q \in 1..Len(calls) : DispatchInitial(q)
  \/ \E i \in 1..Len(runners) : RunnerStep(i)

SpecRun == InitRun /\ [][NextRun]_vars

SpecRestart == Init /\ [][NextRestart]_vars

SpecStop == Init /\ [][NextStop]_vars

\* A Service constructed with or without skipQueueOnStartup.
InitOpts ==
  /\ InitStore
  /\ InitService
  /\ InitReport
  /\ skip \in BOOLEAN

SpecOpts == InitOpts /\ [][NextOK]_vars

\* The Service with store requests that succeed, under fair scheduling: a
\* Service that is created is started, a start that was called proceeds, a
\* change that was received is processed, and a Runner that can take a step
\* takes one (a store request is answered, a worker returns, throws or is
\* timed out).
FairSpec ==
  /\ Init
  /\ [][NextOK]_vars
  /\ WF_vars(ServiceStart)
  /\ \A q \in QueueIds :
       WF_vars(q <= Len(calls) /\ (StartGet(q) \/ DispatchInitial(q)))
  /\ WF_vars(Dispatch)
  /\ \A i \in Keys : WF_vars(i <= Len(runners) /\ RunnerStep(i))

\* The arguments of a direct call of the public method finish.
FinishResults == Results \cup {MkError("Error", "nope", "none")}

\* A caller constructs a Runner for the posted job k, calls
\* finish(status, result, time, failType) and, once that has returned, calls
\* it again with the same arguments. There is one such caller of one job.
FinishTwice(k, status, result, time, failType) ==
  /\ k \in 1..posted
  /\ HasLink(k)
  /\ \A i \in 1..Len(runners) : runners[i].key # k /\ runners[i].pc \in Ended
  /\ LET f == fromOada(k)
         r == [key |-> k, q |-> 0, isJob |-> f.isJob, job |-> f.job,
               pc |-> "new", ctx |-> "none", fin |-> NoFin,
               worker |-> "none", wval |-> EmptyObj, late |-> FALSE,
               ri |-> 0, using |-> NoWorker,
               failedAt |-> "none", ran |-> FALSE, decs |-> 0]
     IN runners' = Append(runners, CallFinish(r, "direct1", status, result,
                                              time, failType))
  /\ UNCHANGED <<repVars, docs, pending, success, failure, typed, posted, now,
                 workers, starts, changes, execQ, faults, svcVars, crashed>>

NextFinish ==
  \/ \E kind \in DocKinds : posted = 0 /\ PostJob(kind)
  \/ Tick
  \/ \E k \in Keys, status \in Terminal, result \in FinishResults,
        time \in Times, failType \in Tags :
       FinishTwice(k, status, result, time, failType)
  \/ \E i \in 1..Len(runners) : FinishStep(i)

SpecFinish == Init /\ [][NextFinish]_vars

\* ------------------------------------------------------------ the claims
RunnerIds == 1..Len(runners)
InSuccess(k) == \E d \in Times : <<DayOf(d), k>> \in success
InFailure(k) == \E d \in Times : <<DayOf(d), k>> \in failure
JobOf(i) == docs[runners[i].key]

\* C1: with store requests succeeding and under fair scheduling, a key that is
\* in pending and whose job type has a registered worker is eventually absent
\* from pending and linked in exactly one of the success and failure day
\* indexes, whatever the worker does.
C1_Termination ==
  \A k \in Keys :
    (k \in pending /\ docs[k].type \in DOMAIN workers)
      ~> (k \notin pending /\ (InSuccess(k) # InFailure(k)))

\* C2: when the worker returned R before its timeout, the Runner that ran it
\* ends with the document at status "success" and result R, the key linked
\* under success/day-index/<day of the finish time> and not under failure
\* (stated here for the runs in which no store request has failed).
C2_ResultRoundTrip ==
  \A i \in RunnerIds :
    (faults = 0 /\ runners[i].pc = "done" /\ runners[i].worker = "returned")
      => /\ JobOf(i).status = "success"
         /\ JobOf(i).result = runners[i].wval
         /\ <<DayOf(runners[i].fin.time), runners[i].key>> \in success
         /\ ~InFailure(runners[i].key)

\* C3: when the worker threw an error with message M, the Runner that ran it
\* ends with the document at status "failure" and result.message = M, the key
\* linked under failure/day-index/<day of the finish time>.
C3_ErrorFaithful ==
  \A i \in RunnerIds :
    (runners[i].pc = "done" /\ runners[i].worker = "threw")
      => /\ JobOf(i).status = "failure"
         /\ "message" \in DOMAIN JobOf(i).result
         /\ JobOf(i).result["message"] = runners[i].wval.message
         /\ <<DayOf(runners[i].fin.time), runners[i].key>> \in failure

C3_Witness ==
  \E i \in RunnerIds :
    /\ runners[i].pc = "done"
    /\ runners[i].worker = "threw"
    /\ JobOf(i).result["message"] = "nope"
    /\ runners[i].fin.time # now

C5_WorkerTimeout ==
  \A i \in RunnerIds :
    (runners[i].pc = "done" /\ runners[i].worker = "timeout")
      => /\ JobOf(i).status = "failure"
         /\ "name" \in DOMAIN JobOf(i).result
         /\ JobOf(i).result["name"] = "TimeoutError"
         /\ <<DayOf(runners[i].fin.time), runners[i].key>> \in failure
         /\ <<"timeout", DayOf(runners[i].fin.time), runners[i].key>> \in typed

C5_Witness ==
  \E i, j \in RunnerIds :
    /\ runners[i].pc = "done" /\ runners[i].worker = "timeout"
    /\ runners[i].late
    /\ runners[j].pc = "done" /\ runners[j].worker = "timeout"
    /\ ~runners[j].late

IsPrefix(a, b) == Len(a) <= Len(b) /\ SubSeq(b, 1, Len(a)) = a

\* A step that leaves status, result and filing of every job as they are and
\* at most appends to the updates logs.
OnlyUpdatesAppended ==
  /\ \A k \in Keys : /\ docs'[k].status = docs[k].status
                     /\ docs'[k].hasResult = docs[k].hasResult
                     /\ docs'[k].result = docs[k].result
                     /\ IsPrefix(docs[k].updates, docs'[k].updates)
  /\ pending' = pending
  /\ success' = success
  /\ failure' = failure
  /\ typed' = typed

\* C6: the completion of a worker after its timeout changes neither the
\* status, nor the result, nor the filing of any job; at most the update the
\* worker posts is appended.
C6_LateCompletionDiscarded ==
  [][\A i \in RunnerIds :
       (runners[i].late /\ ~runners'[i].late) => OnlyUpdatesAppended]_vars

C6_Witness ==
  \E i \in RunnerIds :
    /\ runners[i].worker = "timeout"
    /\ runners[i].pc = "done"
    /\ ~runners[i].late
    /\ JobOf(i).status = "failure"
    /\ JobOf(i).updates[Len(JobOf(i).updates)].status = "working"

\* C7: in every reachable state a job key is in at most one of pending, the
\* success day index and the failure day index.
C7_AtMostOnePlace ==
  \A k \in Keys :
    /\ ~(k \in pending /\ InSuccess(k))
    /\ ~(k \in pending /\ InFailure(k))
    /\ ~(InSuccess(k) /\ InFailure(k))

\* C8: once the status of a job document is "success" or "failure", no step
\* changes its status or its result.
C8_TerminalStable ==
  [][\A k \in Keys :
       docs[k].status \in Terminal
         => /\ docs'[k].status = docs[k].status
            /\ docs'[k].result = docs[k].result]_vars

\* C9: once the Runner of a job has terminated, the key is linked in exactly
\* one of the success and failure day indexes when the Runner completed, and
\* never in both, also when a store request of finish failed.
C9_OneIndex ==
  \A i \in RunnerIds :
    /\ runners[i].pc = "done"
         => (InSuccess(runners[i].key) # InFailure(runners[i].key))
    /\ runners[i].pc \in Ended
         => ~(InSuccess(runners[i].key) /\ InFailure(runners[i].key))

Store == <<docs, pending, success, failure, typed>>

\* C10 (as claimed): the second of two calls of finish with the same
\* arguments changes nothing in the store: no step of the second call changes
\* a job document (its updates log included), a day index or pending.
C10_FinishIdempotent ==
  [][\A i \in RunnerIds :
       (runners[i].ctx = "direct2" /\ runners'[i] # runners[i])
         => Store' = Store]_vars

C10_Step ==
  \A i \in RunnerIds :
    (runners[i].ctx = "direct2" /\ runners'[i] # runners[i])
      => /\ OnlyUpdatesAppended
         /\ \A k \in Keys : k # runners[i].key
                              => docs'[k].updates = docs[k].updates

C10_State ==
  \A i \in RunnerIds :
    (runners[i].ctx = "direct2" /\ runners[i].pc = "done")
      => LET u == JobOf(i).updates
         IN /\ Len(u) = 2
            /\ u[1].status = runners[i].fin.status
            /\ u[2].status = runners[i].fin.status

\* C10 (amended): the second of two calls of finish with the same arguments
\* changes neither the status, nor the result, nor the day-index links, nor
\* pending; it appends one more update with the final status to the updates
\* log of the job, which then holds two of them.
C10_SecondFinishOnlyLogs == []C10_State /\ [][C10_Step]_vars

C10_Witness ==
  \E i \in RunnerIds :
    /\ runners[i].ctx = "direct2"
    /\ runners[i].pc = "done"
    /\ runners[i].fin.time # now
    /\ Len(JobOf(i).updates) = 2

\* C11: of every Queue at most `concurrency` Runners have started executing
\* and not yet terminated, and a closure waits in the executor only while
\* that many Runners of its Queue are executing.
C11_BoundedConcurrency ==
  /\ \A q \in QueueIds : Active(q) <= Concurrency
  /\ \A j \in 1..Len(execQ) : Active(execQ[j].q) = Concurrency

C11_Witness ==
  /\ execQ # <<>>
  /\ \E i \in RunnerIds : runners[i].pc = "work" /\ runners[i].q = execQ[1].q

\* The entries of a sequence.
Range(seq) == {seq[j] : j \in 1..Len(seq)}

\* A Runner for entry k was submitted to an executor.
Submitted(k) ==
  \/ \E i \in RunnerIds : runners[i].key = k
  \/ \E j \in 1..Len(execQ) : execQ[j].key = k

\* Entry k is in a list or change body that #doJobs has still to process.
ToProcess(k) ==
  \/ \E q \in 1..Len(calls) : k \in Range(calls[q].body)
  \/ \E q \in QueueIds : \E b \in 1..Len(changes[q]) :
        k \in Range(changes[q][b])

\* C12: once the first Queue has read the pending list and opened its watch,
\* every pending entry put so far that has a link field either waits in a
\* list or body still to be processed or has a Runner submitted for it
\* (stated here for the runs in which no store request has failed).
C12_NoDroppedWork ==
  (faults = 0 /\ 1 \in watching)
    => \A k \in 1..posted : HasLink(k) => (Submitted(k) \/ ToProcess(k))

\* C13: once Service.stop has returned for a started Service, having closed
\* the watch of its Queue (no store request failed), every Runner has
\* completed normally, none waits in the executor and no entry is still to be
\* submitted: Runners in flight at stop are drained before stop returns and no
\* Runner is started afterwards.
C13_StopDrains ==
  (faults = 0 /\ stopped /\ svcQueue # 0 /\ watching = {})
    => /\ \A i \in RunnerIds : runners[i].pc = "done"
       /\ execQ = <<>>
       /\ \A q \in QueueIds : changes[q] = <<>>

\* C14: a failed initial get of pending makes Queue.start reject, and a start
\* rejected there has left no watch open and has created no Runner: its Queue
\* watches nothing, has received no change, and no Runner or waiting closure
\* belongs to it.
C14_GetFailureFatal ==
  /\ [](\A q \in 1..Len(calls) :
          (calls[q].pc = "rejected" /\ calls[q].why = "get")
            => /\ q \notin watching
               /\ changes[q] = <<>>
               /\ \A i \in RunnerIds : runners[i].q # q
               /\ \A j \in 1..Len(execQ) : execQ[j].q # q)
  /\ [][\A q \in 1..Len(calls) :
          (calls[q].pc = "get" /\ faults' # faults /\ calls'[q] # calls[q])
            => (calls'[q].pc = "rejected" /\ watching' = watching
                /\ runners' = runners /\ execQ' = execQ)]_vars

C14_Witness ==
  \E q \in 1..Len(calls) :
    /\ calls[q].pc = "rejected"
    /\ calls[q].why = "get"
    /\ \E k \in pending : HasLink(k)

\* C15: an error while one job is processed (its worker throws, its document
\* cannot be loaded, a store write of its filing fails) never stops the
\* queue: wherever a watch on pending is open, the process that consumes its
\* changes is alive, so later changes are still dispatched and run.
C15_ErrorsNeverStopQueue ==
  watching # {} => ~crashed

\* C16: with skipQueueOnStartup no Runner is created for an entry that the
\* initial get of pending returned; without it, when start has returned,
\* every entry with a link that the get returned has a Runner.
C16_SkipQueueOnStartup ==
  \A q \in 1..Len(calls) :
    /\ skip => \A k \in calls[q].jobs : ~Submitted(k)
    /\ (~skip /\ calls[q].pc = "done")
         => \A k \in calls[q].jobs : HasLink(k) => Submitted(k)

\* C17: after any sequence of Service.start calls, sequential or overlapping,
\* at most one Queue of the Service has an open watch on pending.
C17_OneActiveQueue ==
  Cardinality(watching) <= 1

\* C18: after on(T, t, w) getWorker(T) returns {w, t}, also when T was
\* registered before; after off(T) getWorker(T) fails; on and off of T leave
\* the registration of every other type as it was; and a Runner that begins
\* to run a job of type T uses the Worker registered for T at that moment,
\* whether it was registered before or after start.
SameOthers(T) ==
  \A t \in WorkerTypes \ {T} :
    /\ (t \in DOMAIN workers') = (t \in DOMAIN workers)
    /\ t \in DOMAIN workers => workers'[t] = workers[t]

BeginsToRun(i) ==
  /\ i \in 1..Len(runners')
  /\ runners'[i].pc = "started"
  /\ (i > Len(runners) \/ runners[i].pc # "started")

C18_WorkerRegistry ==
  [][/\ \A T \in WorkerTypes, w \in WorkerObjs :
          On(T, w) => (getWorker(T)' = w /\ SameOthers(T))
     /\ \A T \in WorkerTypes :
          Off(T) => (getWorker(T)' = NoWorker /\ SameOthers(T))
     /\ \A i \in Keys :
          BeginsToRun(i) => (/\ getWorker(runners'[i].job.type) # NoWorker
                             /\ runners'[i].using
                                  = getWorker(runners'[i].job.type))]_vars

\* A job of type "basic" is at the Worker that a later call of on put in the
\* place of the one the type was registered with.
C18_Witness ==
  \E i \in RunnerIds :
    /\ runners[i].pc = "work"
    /\ runners[i].job.type = "basic"
    /\ runners[i].using = Worker2

\* C19: a job whose type has no registered Worker is filed as a failure of
\* kind "no-worker": when its Runner is done the job is linked under
\* failure/day-index/<d>/<k> and under
\* typed-failure/no-worker/day-index/<d>/<k>, and no worker was invoked.
C19_NoWorkerKind ==
  \A i \in RunnerIds :
    (runners[i].pc = "done" /\ runners[i].fin.result = NoWorkerError)
      => /\ JobOf(i).status = "failure"
         /\ runners[i].using = NoWorker
         /\ runners[i].worker = "none"
         /\ <<DayOf(runners[i].fin.time), runners[i].key>> \in failure
         /\ <<"no-worker", DayOf(runners[i].fin.time), runners[i].key>>
              \in typed

\* C20: a failure finished with failure kind K (the JobError tag of the
\* error the worker threw, or "timeout") is linked under both
\* failure/day-index/<d>/<k> and typed-failure/K/day-index/<d>/<k>; a link
\* under typed-failure is only ever written by a failure finish that has a
\* kind, and is that one link: a failure without a kind and a success write
\* none.
KindOf(i) ==
  IF runners[i].worker = "timeout" THEN "timeout"
  ELSE IF runners[i].worker = "threw" THEN runners[i].wval.JobError
  ELSE runners[i].fin.failType

C20_FailureKindFiling ==
  /\ [](\A i \in RunnerIds :
          (runners[i].pc = "done" /\ runners[i].fin.status = "failure")
            => /\ runners[i].fin.failType = KindOf(i)
               /\ <<DayOf(runners[i].fin.time), runners[i].key>> \in failure
               /\ runners[i].fin.failType # "none"
                    => <<runners[i].fin.failType, DayOf(runners[i].fin.time),
                         runners[i].key>> \in typed)
  /\ [][typed' # typed
          => \E i \in RunnerIds :
               /\ runners[i].pc = "F4"
               /\ runners[i].fin.status = "failure"
               /\ runners[i].fin.failType # "none"
               /\ typed' = typed \cup {<<runners[i].fin.failType,
                                         DayOf(runners[i].fin.time),
                                         runners[i].key>>}]_vars

C20_Witness ==
  \E i \in RunnerIds :
    /\ runners[i].pc = "done"
    /\ runners[i].worker = "threw"
    /\ runners[i].wval.JobError = "bad-input"
    /\ <<DayOf(runners[i].fin.time), runners[i].key>> \in failure
    /\ <<"bad-input", DayOf(runners[i].fin.time), runners[i].key>> \in typed

\* C21: a finish reporter is invoked for a job only if its status equals the
\* job's terminal status, only after the job has been linked in the day index
\* of that status and removed from pending, and the matching reporters are
\* invoked in the order of the configured list: the reporter a Runner turns
\* to is the first matching one after the one it invoked last.
Matching(i) ==
  {j \in 1..Len(FinishReporters) :
     /\ FinishReporters[j].status = runners[i].fin.status
     /\ FinishReporters[j].type = "slack"}

Filed(i) ==
  LET slot == <<DayOf(runners[i].fin.time), runners[i].key>>
  IN IF runners[i].fin.status = "success" THEN slot \in success
     ELSE slot \in failure

C21_ReportersAfterFiling ==
  /\ [](\A i \in RunnerIds :
          runners[i].pc = "F6"
            => /\ runners[i].ri \in Matching(i)
               /\ Filed(i)
               /\ runners[i].key \notin pending)
  /\ [][\A i \in Keys :
          (/\ i <= Len(runners)
           /\ runners'[i].pc = "F6"
           /\ (runners[i].pc # "F6" \/ runners'[i].ri # runners[i].ri))
            => LET last == IF runners[i].pc = "F6" THEN runners[i].ri ELSE 0
               IN /\ runners[i].pc \in {"F5", "F6"}
                  /\ runners'[i].ri > last
                  /\ \A j \in Matching(i) : j > last => runners'[i].ri <= j]_vars

\* The second of two matching reporters is invoked.
C21_Witness ==
  \E i \in RunnerIds :
    /\ runners[i].pc = "F6"
    /\ runners[i].ri = 4
    /\ runners[i].fin.status = "success"

\* C22: a failure while a finish reporter runs (the load of the final job
\* for it, or its post) leaves the job's status, result and day-index filing
\* as the finish it belongs to wrote them, and finish is not executed again
\* for the job: the Runner does not finish the job with the reporter's error.
C22_ReporterFailureIgnored ==
  \A i \in RunnerIds :
    runners[i].failedAt = "F6"
      => /\ runners[i].fin.result # StoreError
         /\ JobOf(i).status = runners[i].fin.status
         /\ Filed(i)

\* C23: when a write of the day-index filing fails during the finish of a
\* valid job, the pending entry of that job key is not deleted (it stays for
\* the next observation of the job), and a pending entry is only ever
\* deleted by a Runner whose day-index link has been written.
C23_FilingFailureKeepsPending ==
  /\ [](\A i \in RunnerIds :
          (runners[i].isJob /\ runners[i].failedAt \in {"F3", "F4"})
            => runners[i].key \in pending)
  /\ [][\A k \in pending \ pending' :
          \E i \in RunnerIds :
            runners[i].key = k /\ runners[i].pc = "F5" /\ Filed(i)]_vars

\* C24: every row under reports/<name>/day-index/<d>/<k> has exactly the
\* columns of jobMappings, and every column whose pointer is not the word
\* errorMappings holds the value the pointer resolves to in the job, or ""
\* when the pointer does not resolve.
C24_ColumnLaw ==
  \A p \in DOMAIN rows :
    /\ DOMAIN rows[p] = DOMAIN JobMappings
    /\ \A c \in DOMAIN JobMappings :
         JobMappings[c] # "errorMappings"
           => rows[p][c] = IF has(docs[p[2]], JobMappings[c])
                           THEN get(docs[p[2]], JobMappings[c]) ELSE ""

\* A row with one column resolved and one not.
C24_Witness ==
  \E p \in DOMAIN rows : rows[p]["Type"] = "basic" /\ rows[p]["Message"] = ""

C26_TypeFilter ==
  report.type # "none"
    => \A p \in DOMAIN rows : docs[p[2]].type = report.type

\* C27: a row of a report exists only for a job key that is linked in a
\* success or failure day index, and a job has at most one row in the report.
C27_RowAfterFiling ==
  \A p \in DOMAIN rows : \E d \in Times : <<d, p[2]>> \in success \cup failure

C27_OneRowPerJob ==
  \A p, q \in DOMAIN rows : p[2] = q[2] => p = q

C27_RowsOfFiledJobsOnce == C27_RowAfterFiling /\ C27_OneRowPerJob

\* C28: a Report fires its cron handler and consumes list-watch events only
\* while running: in a step taken while it is constructed but not started,
\* or stopped, the cron handler does not fire, no row is written and no
\* email job is posted.
C28_OnlyWhileRunning ==
  [][repState # "running"
       => fires' = fires /\ rows' = rows /\ inbox' = inbox
          /\ emails' = emails]_vars

C29_SentEmpty ==
  \E n \in 1..Len(emails) : emails[n].records = {} /\ emails[n].linked

\* C30: the rows aggregated at a cron fire are those of the window
\* [lastCron, fire time), so no row is in the attachments of two fires: the
\* records of two email jobs of the report are disjoint.
C30_NonOverlappingWindows ==
  \A m, n \in 1..Len(emails) :
    m # n => emails[m].records \cap emails[n].records = {}

\* C31: a cron fire with at least one row creates exactly one email job
\* {service: abalonemail, type: email, attachment: the csv of the rows
\* gathered}, which is then linked under the email service's pending list;
\* an email job whose creation returned no location is never linked.
C31_EmailJob ==
  /\ [](/\ Len(emails) + (IF mailing.on THEN 1 ELSE 0) <= fires
        /\ \A n \in 1..Len(emails) :
             /\ emails[n].service = "abalonemail" /\ emails[n].type = "email"
             /\ emails[n].linked => emails[n].located)
  /\ [][/\ (fires' # fires /\ gatherReportRecords(lastCron, now) # {})
             => /\ mailing'.on
                /\ mailing'.content
                     = getAttachment(gatherReportRecords(lastCron, now))
                /\ Len(mailing'.content)
                     = 1 + Cardinality(gatherReportRecords(lastCron, now))
        /\ Len(emails') # Len(emails)
             => /\ mailing.on /\ ~mailing'.on
                /\ Len(emails') = Len(emails) + 1
                /\ emails'[Len(emails')].content = mailing.content
                /\ SubSeq(emails', 1, Len(emails)) = emails]_vars

\* The email job of a fire with one row, linked.
C31_Witness ==
  \E n \in 1..Len(emails) :
    /\ emails[n].linked
    /\ emails[n].content = <<Header, <<"Success", "basic", "">> >>

\* The Runners of valid jobs that were loaded with a terminal status.
LoadedTerminal == {i \in RunnerIds : runners[i].isJob
                                       /\ runners[i].job.status \in Terminal}

MatchingUpdates(job) ==
  {n \in 1..Len(job.updates) : job.updates[n].status = job.status}

\* C33: in the short-circuit for a job that is already terminal, the job is
\* filed under the day of the time of the most recent update whose status is
\* the job's status, also when several updates carry that status; when no
\* update has that status, the time is the current time of the call.
C33_CompletionTime ==
  /\ [](\A i \in LoadedTerminal :
          LET hits == MatchingUpdates(runners[i].job)
              last == CHOOSE n \in hits : \A m \in hits : m <= n
          IN hits # {}
               => /\ DayOf(runners[i].fin.time)
                       = DayOf(runners[i].job.updates[last].time)
                  /\ runners[i].pc \in {"F5", "F6", "done"}
                       => <<DayOf(runners[i].job.updates[last].time),
                            runners[i].key>> \in success \cup failure)
  /\ [][\A i \in 1..Len(runners') :
          (i > Len(runners) /\ runners'[i].ctx = "short"
             /\ MatchingUpdates(runners'[i].job) = {})
            => runners'[i].fin.time = now]_vars

\* The store requests of finish, in the order of the code.
FinishPcs == {"F1", "F2", "F3", "F4", "F5", "F6"}

\* C34: one finish call writes {status, result} to the job document, then
\* appends the final update, then writes the day-index link (and the
\* typed-failure link), then deletes the pending entry, then invokes the
\* reporters; when a step fails, no later step of that call is made.
C34_FinishOrder ==
  [][\A i \in RunnerIds :
       (runners[i].pc \in FinishPcs /\ runners'[i].pc # runners[i].pc)
         => LET r == runners[i]
                pc2 == runners'[i].pc
                k == r.key
                left == pc2 \in {"done", "started", "F1"}
            IN IF faults' # faults
               THEN /\ pc2 \in {"rejected", "F1"}
                    /\ UNCHANGED <<docs, pending, success, failure, typed>>
               ELSE /\ r.pc = "F1" => pc2 = "F2"
                    /\ r.pc = "F2" => pc2 = "F3"
                    /\ r.pc = "F3" => pc2 \in {"F4", "F5"}
                    /\ r.pc = "F4" => pc2 = "F5"
                    /\ r.pc = "F5" => pc2 = "F6" \/ left
                    /\ r.pc = "F6" => left
                    /\ r.pc = "F1" => /\ docs'[k].status = r.fin.status
                                      /\ docs'[k].hasResult
                    /\ r.pc # "F1" => /\ docs'[k].status = docs[k].status
                                      /\ docs'[k].hasResult = docs[k].hasResult
                                      /\ docs'[k].result = docs[k].result
                    /\ r.pc = "F2"
                         => docs'[k].updates =
                              Append(docs[k].updates,
                                     [status |-> r.fin.status, time |-> now])
                    /\ r.pc # "F2" => docs'[k].updates = docs[k].updates
                    /\ r.pc = "F3"
                         => <<DayOf(r.fin.time), k>> \in
                              (IF r.fin.status = "success"
                               THEN success' ELSE failure')
                    /\ r.pc # "F3" => success' = success /\ failure' = failure
                    /\ r.pc = "F4"
                         => typed' = typed \cup
                              {<<r.fin.failType, DayOf(r.fin.time), k>>}
                    /\ r.pc # "F4" => typed' = typed
                    /\ r.pc = "F5" => k \notin pending'
                    /\ r.pc # "F5" => pending' = pending]_vars

\* A finish whose day-index link failed: the document has the status and the
\* final update, the key is in no index and still in pending.
C34_Witness ==
  \E i \in RunnerIds :
    /\ runners[i].failedAt = "F3" /\ runners[i].pc = "rejected"
    /\ JobOf(i).status = runners[i].fin.status
    /\ Len(JobOf(i).updates) > 0
    /\ ~InSuccess(runners[i].key) /\ ~InFailure(runners[i].key)
    /\ runners[i].key \in pending

\* C35: loading a job reads its document at most twice, the second time only
\* when the first read fails validation; isJob is whether the document of
\* the last read passes validation, so a document that is empty at the first
\* read and valid at the second is run as a normal job.
C35_LoadRetry ==
  /\ [](\A q \in 1..Len(calls) :
          /\ calls[q].reads <= 2
          /\ calls[q].pc = "reread" => calls[q].reads = 1)
  /\ [][\A q \in 1..Len(calls) :
          /\ (calls[q].pc # "reread" /\ calls'[q].pc = "reread")
               => ~docs[Head(calls[q].body)].valid
          /\ (calls[q].pc \in {"initial", "reread"}
                /\ calls'[q].pc # "reread" /\ calls'[q] # calls[q])
               => LET new == IF Len(execQ') > Len(execQ)
                             THEN execQ'[Len(execQ')]
                             ELSE runners'[Len(runners')]
                  IN /\ new.key = Head(calls[q].body)
                     /\ new.isJob = docs[new.key].valid
                     /\ new.job.type = docs[new.key].type
                     /\ calls'[q].reads = (IF calls[q].pc = "reread"
                                           THEN 2 ELSE 1)
                     /\ calls[q].pc = "initial" => new.isJob]_vars

\* A document that was empty at the first read and valid at the second: its
\* Runner runs the worker.
C35_Witness ==
  \E i \in RunnerIds, q \in 1..Len(calls) :
    /\ posted = 1 /\ calls[q].reads = 2
    /\ runners[i].isJob /\ runners[i].pc = "work"

\* The type labels of the gauges.
JobTypes == {"basic", "other", "none"}

\* C39: the gauges of queued and of running jobs of every type are never
\* negative, and both are 0 when no Runner is in flight and the executor
\* queue is empty (stated here for the runs in which no store request has
\* failed).
C39_GaugesBalanced ==
  \A type \in JobTypes : faults = 0 =>
    /\ jobsQueued(type) >= 0
    /\ jobsRunning(type) >= 0
    /\ (execQ = <<>> /\ \A i \in RunnerIds : runners[i].pc \in Ended)
         => jobsQueued(type) = 0 /\ jobsRunning(type) = 0

\* C40: the Runner created for an observation of a pending entry executes
\* finish at most once: it makes at most one terminal metric increment and
\* appends at most one final status update.
C40_FinishOncePerRunner ==
  \A i \in RunnerIds : runners[i].q # 0 => runners[i].decs <= 1

\* A change the consumer is to ignore.
Ignored(change) ==
  ChangeType(change) # "merge" \/ ~HasLink(Head(change))

Closures(q, k) ==
  {j \in 1..Len(execQ) : execQ[j].q = q /\ execQ[j].key = k}
    \cup {i + Len(execQ) : i \in {h \in 1..Len(runners) :
                              runners[h].q = q /\ runners[h].key = k}}

\* C37: the change consumer does not wait for Runners. A step that takes a
\* change takes the oldest one; when that is a merge of a link while every
\* slot of the executor is held, the job is loaded and its closure is added
\* at the end of the executor's queue; and every merge of a link a watch has
\* delivered is followed by a closure for its entry, whether or not any
\* worker ever returns.
C37_ConsumerNotBlocked ==
  /\ [][\A q \in QueueIds :
          Len(changes'[q]) < Len(changes[q])
            => /\ changes'[q] = Tail(changes[q])
               /\ LET k == Head(Head(changes[q])) IN
                    (/\ ChangeType(Head(changes[q])) = "merge"
                     /\ HasLink(k)
                     /\ Active(q) >= Concurrency)
                      => /\ runners' = runners
                         /\ execQ' = Append(execQ,
                                            [key |-> k, q |-> q,
                                             job |-> fromOada(k).job,
                                             isJob |-> fromOada(k).isJob])]_vars
  /\ \A q \in QueueIds : \A k \in Keys :
       (\E b \in 1..Len(changes[q]) : changes[q][b] = <<k>> /\ HasLink(k))
         ~> (Closures(q, k) # {})

\* The worker of entry 1 holds the only slot and has not returned, and the
\* closure of entry 2, whose merge the watch delivered after the start,
\* waits in the executor's queue.
C37_Witness ==
  /\ starts = 1 /\ Len(calls) = 1 /\ 2 \notin calls[1].jobs
  /\ \E i \in 1..Len(runners) :
       runners[i].q = 1 /\ runners[i].key = 1 /\ runners[i].pc = "work"
  /\ Active(1) >= Concurrency
  /\ \E j \in 1..Len(execQ) : execQ[j].q = 1 /\ execQ[j].key = 2
  /\ changes[1] = <<>>

\* C38: a call of Service.start whose Queue fails to start does not reject:
\* in the step in which Queue.start rejects, the error goes no further (the
\* process is not ended by it), the Queue of that call does not become the
\* Service's queue, then or later, and the Report the Service holds is
\* started: its CronJob runs and it holds an open pair of ListWatches made
\* by that call.
C38_StartSurvivesQueueFailure ==
  /\ [](\A q \in 1..Len(calls) : calls[q].pc = "rejected" => svcQueue # q)
  /\ [][\A q \in 1..Len(calls) :
          (calls[q].pc # "rejected" /\ calls'[q].pc = "rejected")
            => /\ svcQueue' = svcQueue
               /\ crashed' = crashed
               /\ report.exists
                    => (/\ mailer' /\ repState' = "running"
                        /\ lwCur' = q /\ q \in lw')]_vars

\* Service.start was called on a Service that holds a Report, the load of a
\* job of the initial list failed, and the Report is running with the pair
\* of ListWatches that call opened.
C38_Witness ==
  \E q \in 1..Len(calls) :
    /\ calls[q].pc = "rejected" /\ calls[q].why = "load"
    /\ report.exists /\ repState = "running" /\ lwCur = q
    /\ svcQueue # q
====
